---- MODULE Spec2Model ----
(***************************************************************************)
(* Model of ghactions-core/src/actions/models.rs: the ActionYML            *)
(* descriptor, its Default, ActionYML::load_action and ActionYML::write,   *)
(* over a small file system and a YAML document model.                     *)
(*                                                                         *)
(* Option<T> is modelled as a sequence of length at most one:              *)
(*   None == <<>>,  Some(v) == <<v>>.                                      *)
(* A path is the sequence of its components relative to the working        *)
(* directory; the empty sequence is PathBuf::from("").                     *)
(***************************************************************************)
EXTENDS Naturals, Sequences, FiniteSets, TLC

VARIABLES fs, pre, op, self, arg, ret, out, steps

vars == <<fs, pre, op, self, arg, ret, out, steps>>

\* Depth of the directory chain a/b/c/... the file system is explored on.
MaxDepth == 3

None == <<>>
Some(v) == <<v>>
IsSome(o) == Len(o) = 1
Unwrap(o) == o[1]

----------------------------------------------------------------------------
\* Paths

Names == <<"a", "b", "c", "d", "e", "f">>

PathOf(k) == SubSeq(Names, 1, k)

\* Paths that can name a file-system entry (non-empty).
Entries == {PathOf(k) : k \in 1..MaxDepth}

\* Every PathBuf the model uses, the empty path included.
Paths == {PathOf(k) : k \in 0..MaxDepth}

\* Path::parent(): None for the empty path, else the path without its last
\* component (Some("") for a single component).
Parent(p) == IF Len(p) = 0 THEN None ELSE Some(SubSeq(p, 1, Len(p) - 1))

----------------------------------------------------------------------------
\* YAML documents.  A scalar or sequence node is a record [t, v, items]; a
\* mapping is a function from its keys to nodes or mappings.  A file holds
\* [wf |-> TRUE, map |-> mapping] or unparseable bytes [wf |-> FALSE].

Str(s) == [t |-> "str", v |-> s, items |-> <<>>]
Bool(b) == [t |-> "bool", v |-> IF b THEN "true" ELSE "false", items |-> <<>>]
SeqNode(xs) == [t |-> "seq", v |-> "", items |-> xs]
Null == [t |-> "null", v |-> "", items |-> <<>>]

EmptyMap == [k \in {} |-> Null]

Doc(m) == [wf |-> TRUE, map |-> m]
Garbage == [wf |-> FALSE, map |-> EmptyMap]
\* A file that was created or truncated and never written to.
EmptyFile == Doc(EmptyMap)

Has(m, k) == k \in DOMAIN m

----------------------------------------------------------------------------
\* The data model

\* env!("CARGO_PKG_NAME") of the crate that holds models.rs
CargoPkgName == "ghactions-core"

\* A PathBuf for runs.image that is not valid UTF-8 (serde cannot encode it).
NonUtf8Image == "\\xFF.Dockerfile"

IsUtf8(s) == s # NonUtf8Image

\* Variant of ActionRunsDefault: args defaults to an empty list.
ActionRunsDefaultWithArgs ==
    [using |-> "docker", image |-> Some("./Dockerfile"), args |-> Some(<<>>)]

\* impl Default for ActionRuns
ActionRunsDefault ==
    [using |-> "docker", image |-> Some("./Dockerfile"), args |-> None]

\* impl Default for ActionYML
ActionYMLDefault ==
    [path        |-> None,
     name        |-> Some(CargoPkgName),
     description |-> None,
     author      |-> None,
     branding    |-> None,
     inputs      |-> EmptyMap,
     outputs     |-> EmptyMap,
     runs        |-> ActionRunsDefault]

----------------------------------------------------------------------------
\* Serialize (serde derive).  Each encoder turns an Option of a value into an
\* Option of a node; SkipIfNone is #[serde(skip_serializing_if =
\* "Option::is_none")]: the key is emitted only for Some.

OptStr(o) == IF IsSome(o) THEN Some(Str(Unwrap(o))) ELSE None
OptBool(o) == IF IsSome(o) THEN Some(Bool(Unwrap(o))) ELSE None
OptSeq(o) == IF IsSome(o) THEN Some(SeqNode(Unwrap(o))) ELSE None

\* Variant of SkipIfNone: no skip_serializing_if, None is emitted as null.
SkipIfNoneEmitsNull(k, on) == IF IsSome(on) THEN k :> Unwrap(on) ELSE k :> Null

SkipIfNone(k, on) == IF IsSome(on) THEN k :> Unwrap(on) ELSE EmptyMap

\* ActionInput: r#type is #[serde(skip)], the rest are skipped when None.
SerActionInput(i) ==
    SkipIfNone("description", OptStr(i.description))
    @@ SkipIfNone("required", OptBool(i.required))
    @@ SkipIfNone("default", OptStr(i.default))
    @@ SkipIfNone("deprecationMessage", OptStr(i.deprecation_message))

SerActionOutput(o) == SkipIfNone("description", OptStr(o.description))

SerActionBranding(b) == [color |-> Str(b.color), icon |-> Str(b.icon)]

OptBranding(o) == IF IsSome(o) THEN Some(SerActionBranding(Unwrap(o))) ELSE None

SerActionRuns(r) ==
    ("using" :> Str(r.using))
    @@ SkipIfNone("image", OptStr(r.image))
    @@ SkipIfNone("args", OptSeq(r.args))

\* ActionYML: path is #[serde(skip)]; inputs, outputs and runs are always
\* emitted.
SerActionYML(d) ==
    SkipIfNone("name", OptStr(d.name))
    @@ SkipIfNone("description", OptStr(d.description))
    @@ SkipIfNone("author", OptStr(d.author))
    @@ SkipIfNone("branding", OptBranding(d.branding))
    @@ ("inputs" :> [k \in DOMAIN d.inputs |-> SerActionInput(d.inputs[k])])
    @@ ("outputs" :> [k \in DOMAIN d.outputs |-> SerActionOutput(d.outputs[k])])
    @@ ("runs" :> SerActionRuns(d.runs))

\* Serializing a PathBuf fails when it is not UTF-8.
SerFails(d) == IsSome(d.runs.image) /\ ~IsUtf8(Unwrap(d.runs.image))

\* What the emitter had produced when the image path made it fail.
SerPrefix(d) ==
    SkipIfNone("name", OptStr(d.name))
    @@ SkipIfNone("description", OptStr(d.description))
    @@ SkipIfNone("author", OptStr(d.author))
    @@ SkipIfNone("branding", OptBranding(d.branding))
    @@ ("inputs" :> [k \in DOMAIN d.inputs |-> SerActionInput(d.inputs[k])])
    @@ ("outputs" :> [k \in DOMAIN d.outputs |-> SerActionOutput(d.outputs[k])])
    @@ ("runs" :> ("using" :> Str(d.runs.using)))

----------------------------------------------------------------------------
\* Deserialize (serde derive).  A key that is missing or null gives None for
\* an Option field; a missing key of any other field is an error, as no field
\* carries #[serde(default)].  Unknown keys are ignored.

TypeErr(m, k, tag) == Has(m, k) /\ m[k].t \notin {tag, "null"}

Present(m, k) == Has(m, k) /\ m[k].t # "null"

\* Variant of DeStr: an empty string is taken as None.
DeStrEmptyIsNone(m, k) ==
    IF Present(m, k) /\ m[k].v # "" THEN Some(m[k].v) ELSE None

DeStr(m, k) == IF Present(m, k) THEN Some(m[k].v) ELSE None
\* Variant of DeBool: a missing key is defaulted to Some(false).
DeBoolDefaultsFalse(m, k) ==
    IF Present(m, k) THEN Some(m[k].v = "true") ELSE Some(FALSE)

DeBool(m, k) == IF Present(m, k) THEN Some(m[k].v = "true") ELSE None
DeSeq(m, k) == IF Present(m, k) THEN Some(m[k].items) ELSE None

\* Variant of StringMissing: a missing String key is defaulted.
StringMissingOptional(m, k) == FALSE

\* A non-Option String field: the key must be there and hold a string.

StringMissing(m, k) == ~Has(m, k)

StringErr(m, k) == StringMissing(m, k) \/ (Has(m, k) /\ m[k].t # "str")

DeString(m, k) == IF Has(m, k) THEN m[k].v ELSE ""

\* ActionInput: r#type is #[serde(skip)], never read, left at its Default.
ActionInputErr(im) ==
    \/ TypeErr(im, "description", "str")
    \/ TypeErr(im, "required", "bool")
    \/ TypeErr(im, "default", "str")
    \/ TypeErr(im, "deprecationMessage", "str")

DeActionInput(im) ==
    [type                |-> "",
     description         |-> DeStr(im, "description"),
     required            |-> DeBool(im, "required"),
     default             |-> DeStr(im, "default"),
     deprecation_message |-> DeStr(im, "deprecationMessage")]

ActionOutputErr(om) == TypeErr(om, "description", "str")

DeActionOutput(om) == [description |-> DeStr(om, "description")]

ActionBrandingErr(bm) == StringErr(bm, "color") \/ StringErr(bm, "icon")

DeActionBranding(bm) ==
    [color |-> DeString(bm, "color"), icon |-> DeString(bm, "icon")]

ActionRunsErr(rm) ==
    \/ StringErr(rm, "using")
    \/ TypeErr(rm, "image", "str")
    \/ TypeErr(rm, "args", "seq")

DeActionRuns(rm) ==
    [using |-> DeString(rm, "using"),
     image |-> DeStr(rm, "image"),
     args  |-> DeSeq(rm, "args")]

\* Variant of MissingFields: inputs, outputs and runs carry serde(default).
MissingFieldsDefaulted(m) == {}

\* The mandatory keys of ActionYML that the mapping lacks.

MissingFields(m) == {"inputs", "outputs", "runs"} \ DOMAIN m

SubMap(m, k) == IF Has(m, k) THEN m[k] ELSE EmptyMap

ActionYMLErr(m) ==
    \/ MissingFields(m) # {}
    \/ TypeErr(m, "name", "str")
    \/ TypeErr(m, "description", "str")
    \/ TypeErr(m, "author", "str")
    \/ (Has(m, "branding") /\ ActionBrandingErr(m["branding"]))
    \/ \E k \in DOMAIN SubMap(m, "inputs") : ActionInputErr(m["inputs"][k])
    \/ \E k \in DOMAIN SubMap(m, "outputs") : ActionOutputErr(m["outputs"][k])
    \/ ActionRunsErr(SubMap(m, "runs"))

DeActionYML(m) ==
    [path        |-> None,
     name        |-> DeStr(m, "name"),
     description |-> DeStr(m, "description"),
     author      |-> DeStr(m, "author"),
     branding    |-> IF Has(m, "branding")
                     THEN Some(DeActionBranding(m["branding"]))
                     ELSE None,
     inputs      |-> [k \in DOMAIN SubMap(m, "inputs") |->
                         DeActionInput(m["inputs"][k])],
     outputs     |-> [k \in DOMAIN SubMap(m, "outputs") |->
                         DeActionOutput(m["outputs"][k])],
     runs        |-> DeActionRuns(SubMap(m, "runs"))]

\* serde_yaml::from_reader on a file's contents.
FromReader(data) ==
    IF data.wf /\ ~ActionYMLErr(data.map)
    THEN [ok |-> TRUE, val |-> Some(DeActionYML(data.map))]
    ELSE [ok |-> FALSE, val |-> None]

----------------------------------------------------------------------------
\* The file system: every entry of the chain is missing, a directory or a
\* regular file (read-only or not) with its contents.

NoNode == [kind |-> "none", ro |-> FALSE, data |-> EmptyFile]
DirNode == [kind |-> "dir", ro |-> FALSE, data |-> EmptyFile]
FileNode(data, ro) == [kind |-> "file", ro |-> ro, data |-> data]

\* Path::exists(): false for the empty path.
Exists(f, p) == p \in DOMAIN f /\ f[p].kind # "none"
IsDir(f, p) == p \in DOMAIN f /\ f[p].kind = "dir"
IsFile(f, p) == p \in DOMAIN f /\ f[p].kind = "file"

Ancestors(p) == {SubSeq(p, 1, k) : k \in 1..(Len(p) - 1)}

ENOENT == "No such file or directory"
ENOTDIR == "Not a directory"
EEXIST == "File exists"
EISDIR == "Is a directory"
EACCES == "Permission denied"
EUTF8 == "path contains invalid UTF-8 characters"

\* mkdir(2) of one directory.
Mkdir(f, p) ==
    IF \E q \in Ancestors(p) : IsFile(f, q) THEN [err |-> ENOTDIR, fs |-> f]
    ELSE IF \E q \in Ancestors(p) : ~Exists(f, q) THEN [err |-> ENOENT, fs |-> f]
    ELSE IF p \notin DOMAIN f THEN [err |-> ENOENT, fs |-> f]
    ELSE IF Exists(f, p) THEN [err |-> EEXIST, fs |-> f]
    ELSE [err |-> "", fs |-> [f EXCEPT ![p] = DirNode]]

\* std::fs::create_dir_all: nothing to do for the empty path; otherwise
\* mkdir, and on NotFound create the parent chain first and mkdir again; an
\* error is forgiven when the path is a directory by then.
RECURSIVE CreateDirAll(_, _)
CreateDirAll(f, p) ==
    IF p = <<>> THEN [err |-> "", fs |-> f]
    ELSE
      LET r == Mkdir(f, p) IN
      IF r.err = "" THEN r
      ELSE IF r.err # ENOENT
        THEN (IF IsDir(f, p) THEN [err |-> "", fs |-> f] ELSE r)
      ELSE IF Parent(p) = None THEN r
      ELSE
        LET up == CreateDirAll(f, Unwrap(Parent(p))) IN
        IF up.err # "" THEN up
        ELSE
          LET r2 == Mkdir(up.fs, p) IN
          IF r2.err = "" \/ ~IsDir(up.fs, p) THEN r2
          ELSE [err |-> "", fs |-> up.fs]

\* OpenOptions::new().write(true).create(true).truncate(true).open(path)
OpenCreateTruncate(f, p) ==
    IF p \notin DOMAIN f THEN [err |-> ENOENT, fs |-> f]
    ELSE IF \E q \in Ancestors(p) : IsFile(f, q) THEN [err |-> ENOTDIR, fs |-> f]
    ELSE IF \E q \in Ancestors(p) : ~Exists(f, q) THEN [err |-> ENOENT, fs |-> f]
    ELSE IF IsDir(f, p) THEN [err |-> EISDIR, fs |-> f]
    ELSE IF IsFile(f, p) /\ f[p].ro THEN [err |-> EACCES, fs |-> f]
    ELSE [err |-> "", fs |-> [f EXCEPT ![p] = FileNode(EmptyFile, FALSE)]]

\* serde_yaml::to_writer(fhandle, self): the contents the opened file can be
\* left with, and the error if any.  A failed emit leaves either nothing or
\* what was emitted before the failure.
ToWriter(f, p, d) ==
    IF SerFails(d)
    THEN {[err |-> EUTF8, fs |-> [f EXCEPT ![p].data = c]] :
             c \in {EmptyFile, Doc(SerPrefix(d))}}
    ELSE {[err |-> "", fs |-> [f EXCEPT ![p].data = Doc(SerActionYML(d))]]}

----------------------------------------------------------------------------
\* Results

Ok(p) == [tag |-> "Ok", kind |-> "", msg |-> "", path |-> p]
Err(kind, msg) == [tag |-> "Err", kind |-> kind, msg |-> msg, path |-> None]
Panic == [tag |-> "Panic", kind |-> "", msg |-> "", path |-> None]
NoRet == [tag |-> "", kind |-> "", msg |-> "", path |-> None]

IOError(msg) == Err("ActionsError::IOError", msg)
NotImplemented == Err("ActionsError::NotImplemented", "")

Outcome(r, f, st) == [ret |-> r, fs |-> f, steps |-> st]

\* ActionYML::load_action(path): File::open, serde_yaml::from_reader, then
\* path = Some(path).  Opening a directory succeeds and reading it fails
\* inside from_reader.
LoadAction(f, p) ==
    IF ~Exists(f, p)
    THEN [ret |-> Err("std::io::Error", ENOENT), out |-> None]
    ELSE IF IsDir(f, p)
    THEN [ret |-> Err("serde_yaml::Error", EISDIR), out |-> None]
    ELSE
      LET r == FromReader(f[p].data) IN
      IF ~r.ok
      THEN [ret |-> Err("serde_yaml::Error", "invalid document"), out |-> None]
      ELSE [ret |-> Ok(None),
            out |-> Some([Unwrap(r.val) EXCEPT !.path = Some(p)])]

\* The part of ActionYML::write after the path is known: the missing-path
\* branch with parent().unwrap() and create_dir_all.
\* Variant of WriteDirs: create_dir in place of create_dir_all.
WriteDirsCreateDir(f, path) ==
    IF Exists(f, path) THEN Outcome(NoRet, f, <<>>)
    ELSE IF Parent(path) = None THEN Outcome(Panic, f, <<>>)
    ELSE
      LET r == Mkdir(f, Unwrap(Parent(path))) IN
      IF r.err # "" THEN Outcome(IOError(r.err), r.fs, <<"create_dir_all">>)
      ELSE Outcome(NoRet, r.fs, <<"create_dir_all">>)

WriteDirs(f, path) ==
    IF Exists(f, path) THEN Outcome(NoRet, f, <<>>)
    ELSE IF Parent(path) = None THEN Outcome(Panic, f, <<>>)
    ELSE
      LET r == CreateDirAll(f, Unwrap(Parent(path))) IN
      IF r.err # "" THEN Outcome(IOError(r.err), r.fs, <<"create_dir_all">>)
      ELSE Outcome(NoRet, r.fs, <<"create_dir_all">>)

\* Variant of WriteFile: a serialization failure keeps the codec's error kind.
WriteFileYamlError(o, path, d) ==
    LET r == OpenCreateTruncate(o.fs, path) IN
    IF r.err # "" THEN {Outcome(IOError(r.err), r.fs, Append(o.steps, "open"))}
    ELSE {Outcome(IF w.err # "" THEN Err("serde_yaml::Error", w.err)
                  ELSE Ok(Some(path)),
                  w.fs, o.steps \o <<"open", "to_writer">>) :
             w \in ToWriter(r.fs, path, d)}

\* The rest of ActionYML::write: open the file, serialize into it, Ok(path).
WriteFile(o, path, d) ==
    LET r == OpenCreateTruncate(o.fs, path) IN
    IF r.err # "" THEN {Outcome(IOError(r.err), r.fs, Append(o.steps, "open"))}
    ELSE {Outcome(IF w.err # "" THEN IOError(w.err) ELSE Ok(Some(path)),
                  w.fs, o.steps \o <<"open", "to_writer">>) :
             w \in ToWriter(r.fs, path, d)}

\* Variant of Write: a descriptor without path is written to a default path.
WriteToDefaultPath(f, d) ==
    LET path == IF IsSome(d.path) THEN Unwrap(d.path) ELSE PathOf(1)
        o == WriteDirs(f, path)
    IN  IF o.ret # NoRet THEN {o} ELSE WriteFile(o, path, d)

\* ActionYML::write(&self): every outcome of the call in file system f.
Write(f, d) ==
    IF IsSome(d.path)
    THEN LET path == Unwrap(d.path)
             o == WriteDirs(f, path)
         IN  IF o.ret # NoRet THEN {o} ELSE WriteFile(o, path, d)
    ELSE {Outcome(NotImplemented, f, <<>>)}

----------------------------------------------------------------------------
\* The descriptors a caller builds by field assignment

OnlyRequired ==
    [type |-> "", description |-> None, required |-> Some(TRUE),
     default |-> None, deprecation_message |-> None]

Minimal ==
    [path        |-> None,
     name        |-> None,
     description |-> None,
     author      |-> None,
     branding    |-> None,
     inputs      |-> EmptyMap,
     outputs     |-> EmptyMap,
     runs        |-> [using |-> "node20", image |-> None, args |-> None]]

Full ==
    [path        |-> None,
     name        |-> Some("n"),
     description |-> Some("d"),
     author      |-> Some(""),
     branding    |-> Some([color |-> "red", icon |-> "anchor"]),
     inputs      |-> ("token" :> [OnlyRequired EXCEPT !.type = "string"])
                     @@ ("mode" :> [OnlyRequired EXCEPT !.required = None,
                                                       !.default = Some("")]),
     outputs     |-> ("sha" :> [description |-> Some("out")])
                     @@ ("url" :> [description |-> None]),
     runs        |-> [using |-> "docker", image |-> Some("./Dockerfile"),
                      args |-> Some(<<"--flag", "x">>)]]

AllInput ==
    [type |-> "string", description |-> Some("in"), required |-> Some(FALSE),
     default |-> Some(""), deprecation_message |-> Some("old")]

InputFields == {"description", "required", "default", "deprecation_message"}

\* An input with field k alone taken from AllInput; its type is t.
OneField(t, k) ==
    [type                |-> t,
     description         |-> IF k = "description" THEN AllInput.description ELSE None,
     required            |-> IF k = "required" THEN AllInput.required ELSE None,
     default             |-> IF k = "default" THEN AllInput.default ELSE None,
     deprecation_message |-> IF k = "deprecation_message"
                             THEN AllInput.deprecation_message ELSE None]

ActionInputs ==
    {AllInput, OnlyRequired, OneField("string", "none")}
    \cup {OneField("", k) : k \in InputFields}

RunsValues ==
    {[using |-> "docker", image |-> Some(NonUtf8Image), args |-> None],
     [using |-> "docker", image |-> None, args |-> Some(<<>>)],
     [using |-> "composite", image |-> Some("img"), args |-> Some(<<"x">>)]}

TopFields ==
    {"name", "description", "author", "branding", "inputs", "outputs", "runs"}

\* b with field k taken from a.
Take(b, a, k) ==
    CASE k = "name"        -> [b EXCEPT !.name = a.name]
      [] k = "description" -> [b EXCEPT !.description = a.description]
      [] k = "author"      -> [b EXCEPT !.author = a.author]
      [] k = "branding"    -> [b EXCEPT !.branding = a.branding]
      [] k = "inputs"      -> [b EXCEPT !.inputs = a.inputs]
      [] k = "outputs"     -> [b EXCEPT !.outputs = a.outputs]
      [] k = "runs"        -> [b EXCEPT !.runs = a.runs]

Contents ==
    {ActionYMLDefault, Minimal, Full}
    \cup {Take(Minimal, Full, k) : k \in TopFields}
    \cup {Take(Full, Minimal, k) : k \in TopFields}
    \cup {[Minimal EXCEPT !.inputs = ("token" :> i)] : i \in ActionInputs}
    \cup {[Minimal EXCEPT !.runs = r] : r \in RunsValues}

Descriptors ==
    {[c EXCEPT !.path = p] : c \in Contents, p \in {None} \cup {Some(q) : q \in Paths}}

----------------------------------------------------------------------------
\* The documents found on disk before the program runs

Without(m, k) == [x \in DOMAIN m \ {k} |-> m[x]]

FullMap == SerActionYML(Full)

InitDocs ==
    {Garbage, EmptyFile, Doc(FullMap),
     Doc(SerActionYML(Minimal)),
     Doc(("inputs" :> ("token" :> ("required" :> Bool(TRUE))))
         @@ SerActionYML(Minimal)),
     Doc(("inputs" :> ("token" :> (("type" :> Str("string"))
                                    @@ ("required" :> Str("maybe")))))
         @@ SerActionYML(Minimal)),
     Doc(("inputs" :> ("token" :> (("type" :> Str("string"))
                                    @@ ("default" :> Str("x")))))
         @@ ("author" :> Null) @@ ("extra" :> Str("ignored"))
         @@ SerActionYML(Minimal)),
     Doc(("branding" :> ("color" :> Str("red"))) @@ FullMap),
     Doc(("branding" :> ("icon" :> Str("anchor"))) @@ FullMap),
     Doc(("branding" :> EmptyMap) @@ FullMap),
     Doc(("runs" :> Without(FullMap["runs"], "using")) @@ FullMap)}
    \cup {Doc(Without(FullMap, k)) : k \in {"inputs", "outputs", "runs"}}

\* The chain's first j entries are directories; the next one is missing or a
\* file; nothing exists below a missing entry or a file.
InitFS ==
    {[p \in Entries |-> IF Len(p) <= j THEN DirNode
                        ELSE IF Len(p) = j + 1 THEN n
                        ELSE NoNode] :
        j \in 0..MaxDepth,
        n \in {NoNode, FileNode(Doc(FullMap), TRUE)}
               \cup {FileNode(c, FALSE) : c \in InitDocs}}

----------------------------------------------------------------------------
\* The state machine: a caller that constructs, loads and writes descriptors.
\*   fs    the file system          pre   the file system before the last call
\*   op    the last call            self  the descriptor write was called on
\*   arg   the path given to load   ret   the last call's result
\*   out   the descriptor returned  steps the file operations write attempted

Init ==
    /\ fs \in InitFS
    /\ pre = fs
    /\ op = "init"
    /\ self = None
    /\ arg = None
    /\ ret = NoRet
    /\ out = None
    /\ steps = <<>>

\* ActionYML::default()
DoDefault ==
    /\ op' = "default"
    /\ out' = Some(ActionYMLDefault)
    /\ ret' = Ok(None)
    /\ pre' = fs
    /\ self' = None
    /\ arg' = None
    /\ steps' = <<>>
    /\ UNCHANGED fs

\* ActionYML::load_action(path)
DoLoad ==
    \E p \in Paths :
      LET r == LoadAction(fs, p) IN
      /\ op' = "load_action"
      /\ arg' = Some(p)
      /\ ret' = r.ret
      /\ out' = r.out
      /\ pre' = fs
      /\ self' = None
      /\ steps' = <<>>
      /\ UNCHANGED fs

\* action.write()
DoWrite ==
    \E d \in Descriptors :
      \E o \in Write(fs, d) :
        /\ op' = "write"
        /\ self' = Some(d)
        /\ ret' = o.ret
        /\ fs' = o.fs
        /\ steps' = o.steps
        /\ pre' = fs
        /\ arg' = None
        /\ out' = None

Next == DoDefault \/ DoLoad \/ DoWrite

Spec == Init /\ [][Next]_vars

----------------------------------------------------------------------------
\* Properties

WriteCalled == op = "write" /\ IsSome(self)
LoadCalled == op = "load_action" /\ IsSome(arg)
Receiver == Unwrap(self)
Target == Unwrap(Receiver.path)
HasTarget == WriteCalled /\ IsSome(Receiver.path)
WriteOk == HasTarget /\ ret.tag = "Ok"
\* The mapping in the file write left at its target.
Emitted == fs[Target].data.map
\* The contents load_action read, when there was a file to read.
Loaded == pre[Unwrap(arg)].data
LoadedFile == LoadCalled /\ IsFile(pre, Unwrap(arg))
LoadOk == LoadCalled /\ ret.tag = "Ok" /\ IsSome(out)

ResetKind(d) ==
    [d EXCEPT !.inputs = [k \in DOMAIN d.inputs |->
                             [d.inputs[k] EXCEPT !.type = ""]]]

\* What load_action gives for d's file: d with every Input.type emptied.
ReadsBack(f, d) ==
    LET l == LoadAction(f, Unwrap(d.path))
    IN  /\ l.ret.tag = "Ok"
        /\ IsSome(l.out)
        /\ Unwrap(l.out) = ResetKind(d)

\* C1: Round-trip.  After a successful write of a descriptor with a path,
\* load_action of that path succeeds and returns the descriptor with the same
\* path and the same name, description, author, branding, inputs, outputs and
\* runs, every Input.type being the empty string, whatever the file held
\* before.
C1_RoundTrip ==
    WriteOk => /\ ret.path = Receiver.path
               /\ ReadsBack(fs, Receiver)

\* C1 witness: a successful write over a file that held something else, of a
\* descriptor with branding and an input whose type is not empty.
C1_Witness ==
    /\ WriteOk
    /\ IsFile(pre, Target) /\ pre[Target].data = Garbage
    /\ IsSome(Receiver.branding)
    /\ \E k \in DOMAIN Receiver.inputs : Receiver.inputs[k].type # ""

\* C2: Write without location.  write on a descriptor whose path is None
\* returns ActionsError::NotImplemented, attempts no file operation and
\* leaves the file system as it was.
C2_WriteWithoutLocation ==
    (WriteCalled /\ Receiver.path = None)
        => ret = NotImplemented /\ steps = <<>> /\ fs = pre

\* C2 witness: write was called on the default-constructed descriptor in a
\* file system where a write to some path would have created a file.
C2_Witness ==
    /\ WriteCalled /\ Receiver = ActionYMLDefault
    /\ ret = NotImplemented
    /\ ~Exists(fs, PathOf(1))

OptionalKeys(m, keys) == \A k \in keys : Has(m, k) => m[k] # Null

\* C3: Omission on serialization.  In the document a successful write emits,
\* the key of each optional attribute is there exactly when the attribute is
\* Some, no key holds a null, and there is no key for path or for an input's
\* type.
C3_Omission ==
    WriteOk =>
      LET m == Emitted
          d == Receiver
      IN  /\ fs[Target].data.wf
          /\ Has(m, "name") <=> IsSome(d.name)
          /\ Has(m, "description") <=> IsSome(d.description)
          /\ Has(m, "author") <=> IsSome(d.author)
          /\ Has(m, "branding") <=> IsSome(d.branding)
          /\ OptionalKeys(m, {"name", "description", "author"})
          /\ DOMAIN m \cap {"path", "source_location"} = {}
          /\ DOMAIN m["inputs"] = DOMAIN d.inputs
          /\ \A k \in DOMAIN d.inputs :
               LET im == m["inputs"][k]
                   i == d.inputs[k]
               IN  /\ Has(im, "description") <=> IsSome(i.description)
                   /\ Has(im, "required") <=> IsSome(i.required)
                   /\ Has(im, "default") <=> IsSome(i.default)
                   /\ Has(im, "deprecationMessage") <=> IsSome(i.deprecation_message)
                   /\ OptionalKeys(im, DOMAIN im)
                   /\ DOMAIN im \cap {"type", "kind", "r#type"} = {}
          /\ DOMAIN m["outputs"] = DOMAIN d.outputs
          /\ \A k \in DOMAIN d.outputs :
               /\ Has(m["outputs"][k], "description")
                    <=> IsSome(d.outputs[k].description)
               /\ OptionalKeys(m["outputs"][k], {"description"})
          /\ Has(m["runs"], "image") <=> IsSome(d.runs.image)
          /\ Has(m["runs"], "args") <=> IsSome(d.runs.args)
          /\ OptionalKeys(m["runs"], {"image", "args"})

\* C3 witness: a successful write of a descriptor without author, with a
\* name, with an input whose type is set and an output without description.
C3_Witness ==
    /\ WriteOk
    /\ Receiver.author = None /\ IsSome(Receiver.name)
    /\ \E k \in DOMAIN Receiver.inputs : Receiver.inputs[k].type # ""
    /\ \E k \in DOMAIN Receiver.outputs : Receiver.outputs[k].description = None
    /\ ~Has(Emitted, "author")

\* The first step of write that fails in file system f for descriptor d with
\* path p, read off the file system rather than off write: directory
\* creation fails when an ancestor of a missing target is a regular file, the
\* open fails on a directory or a read-only file, and serialization fails on
\* an image path that is not UTF-8.
DirsFail(f, p) == ~Exists(f, p) /\ \E q \in Ancestors(p) : IsFile(f, q)
OpenFails(f, p) == IsDir(f, p) \/ (IsFile(f, p) /\ f[p].ro)

\* C4: Write error mapping.  When write has a path and one of its steps
\* fails, it returns ActionsError::IOError with the underlying message, also
\* for a serialization failure, and attempts no later step.
C4_WriteErrorMapping ==
    (HasTarget /\ Len(Target) > 0) =>
      /\ ret.tag = "Err" => ret.kind = "ActionsError::IOError"
      /\ DirsFail(pre, Target) =>
           /\ ret = IOError(IF IsFile(pre, Unwrap(Parent(Target)))
                            THEN EEXIST ELSE ENOTDIR)
           /\ steps = <<"create_dir_all">>
           /\ fs = pre
      /\ (~DirsFail(pre, Target) /\ OpenFails(pre, Target)) =>
           /\ ret = IOError(IF IsDir(pre, Target) THEN EISDIR ELSE EACCES)
           /\ steps = <<"open">>
           /\ fs = pre
      /\ (~DirsFail(pre, Target) /\ ~OpenFails(pre, Target) /\ SerFails(Receiver)) =>
           /\ ret = IOError(EUTF8)
           /\ steps[Len(steps)] = "to_writer"
      /\ (~DirsFail(pre, Target) /\ ~OpenFails(pre, Target) /\ ~SerFails(Receiver)) =>
           ret.tag = "Ok"

\* C4 witness: a write whose serialization failed after the parent
\* directories were created and the file was opened.
C4_Witness ==
    /\ HasTarget
    /\ steps = <<"create_dir_all", "open", "to_writer">>
    /\ ret = IOError(EUTF8)

\* C4 witness of the other two failures.
C4_WitnessDirs == HasTarget /\ steps = <<"create_dir_all">> /\ ret = IOError(ENOTDIR)
C4_WitnessOpen == HasTarget /\ steps = <<"open">> /\ ret = IOError(EACCES)

PartialBranding(data) ==
    /\ data.wf
    /\ Has(data.map, "branding")
    /\ {"color", "icon"} \ DOMAIN data.map["branding"] # {}

\* C5: Mandatory branding pair.  load_action of a document whose branding
\* lacks color or icon fails with the codec's structure error and returns no
\* descriptor; a descriptor load_action returns has branding None or the
\* color and the icon of the document.
C5_BrandingPair ==
    LoadedFile =>
      /\ PartialBranding(Loaded) =>
           ret.tag = "Err" /\ ret.kind = "serde_yaml::Error" /\ out = None
      /\ LoadOk =>
           LET b == Unwrap(out).branding IN
           IF Has(Loaded.map, "branding")
           THEN /\ IsSome(b)
                /\ Str(Unwrap(b).color) = Loaded.map["branding"]["color"]
                /\ Str(Unwrap(b).icon) = Loaded.map["branding"]["icon"]
           ELSE b = None

\* C5 witness: load_action of a document with branding: {color: red} failed.
C5_Witness ==
    /\ LoadedFile
    /\ Has(Loaded.map, "branding")
    /\ DOMAIN Loaded.map["branding"] = {"color"}
    /\ ret.tag = "Err"

\* C5 witness of a load that returned a branding.
C5_WitnessLoaded == LoadOk /\ IsSome(Unwrap(out).branding)

\* write was called for a target that did not exist, below a parent directory
\* that did not exist either.
MissingParent ==
    /\ HasTarget
    /\ Len(Target) >= 2
    /\ ~Exists(pre, Target)
    /\ ~Exists(pre, Unwrap(Parent(Target)))

DirsOf(f) == {p \in DOMAIN f : IsDir(f, p)}

\* C6 as stated: such a write creates the chain of parent directories,
\* succeeds and leaves a file that reads back; on an existing target no
\* directory is created.
C6_AsStated ==
    /\ MissingParent =>
         /\ ret.tag = "Ok"
         /\ Ancestors(Target) \subseteq DirsOf(fs)
         /\ ReadsBack(fs, Receiver)
    /\ (HasTarget /\ Exists(pre, Target)) =>
         /\ "create_dir_all" \notin {steps[i] : i \in 1..Len(steps)}
         /\ DirsOf(fs) = DirsOf(pre)

\* C6 (amended): Directory auto-creation.  Such a write creates the chain of
\* parent directories before it opens the file; it fails only if directory
\* creation fails (an ancestor is a regular file) or serialization fails (the
\* image path is not UTF-8), and otherwise it succeeds and leaves a file that
\* load_action reads back; on an existing target no directory creation is
\* attempted.
C6_DirectoryAutoCreation ==
    /\ MissingParent =>
         /\ Len(steps) >= 1 /\ steps[1] = "create_dir_all"
         /\ \A i \in 1..Len(steps) :
              steps[i] = "open" =>
                /\ i > 1
                /\ Ancestors(Target) \subseteq DirsOf(fs)
         /\ (~DirsFail(pre, Target) /\ ~SerFails(Receiver)) =>
              /\ ret = Ok(Some(Target))
              /\ steps = <<"create_dir_all", "open", "to_writer">>
              /\ DirsOf(fs) = DirsOf(pre) \cup Ancestors(Target)
              /\ IsFile(fs, Target)
              /\ ReadsBack(fs, Receiver)
         /\ ret.tag = "Ok" \/ DirsFail(pre, Target) \/ SerFails(Receiver)
    /\ (HasTarget /\ Exists(pre, Target)) =>
         /\ "create_dir_all" \notin {steps[i] : i \in 1..Len(steps)}
         /\ DirsOf(fs) = DirsOf(pre)

\* C6 witness: a successful write that had to create two directories.
C6_Witness ==
    /\ MissingParent
    /\ ret.tag = "Ok"
    /\ Cardinality(DirsOf(fs) \ DirsOf(pre)) >= 2
    /\ IsFile(fs, Target)

\* C6 witness of a write to a target that existed.
C6_WitnessExisting == HasTarget /\ IsFile(pre, Target) /\ ret.tag = "Ok"

DefaultCalled == op = "default" /\ IsSome(out)

\* C7 as stated: the default descriptor has runs docker, ./Dockerfile and no
\* args, empty inputs and outputs, and path, name, description, author and
\* branding all None.
C7_AsStated ==
    DefaultCalled =>
      LET d == Unwrap(out) IN
      /\ d.runs.using = "docker"
      /\ d.runs.image = Some("./Dockerfile")
      /\ d.runs.args = None
      /\ DOMAIN d.inputs = {} /\ DOMAIN d.outputs = {}
      /\ d.path = None /\ d.name = None /\ d.description = None
      /\ d.author = None /\ d.branding = None

\* C7 (amended): Default construction.  The default descriptor has runs
\* docker, ./Dockerfile and no args, empty inputs and outputs, path,
\* description, author and branding None, and name Some(package name).
C7_DefaultConstruction ==
    DefaultCalled =>
      LET d == Unwrap(out) IN
      /\ d.runs.using = "docker"
      /\ d.runs.image = Some("./Dockerfile")
      /\ d.runs.args = None
      /\ DOMAIN d.inputs = {} /\ DOMAIN d.outputs = {}
      /\ d.path = None /\ d.description = None
      /\ d.author = None /\ d.branding = None
      /\ IsSome(d.name) /\ Unwrap(d.name) = CargoPkgName

\* C7 witness: ActionYML::default() was called.
C7_Witness == DefaultCalled /\ ret.tag = "Ok"

\* An inputs entry that holds required: true and no other key.
RequiredOnlyEntry(im) == DOMAIN im = {"required"} /\ im["required"] = Bool(TRUE)

\* C8: Absent optional fields on load.  In the descriptor load_action returns,
\* every optional attribute whose key the document lacks is None.  An inputs
\* entry with required: true alone loads as required Some(true) and the other
\* three None, and a write of the loaded descriptor emits that entry with the
\* required key alone.
C8_AbsentOnLoad ==
    (LoadedFile /\ LoadOk) =>
      LET m == Loaded.map
          d == Unwrap(out)
      IN  /\ ~Has(m, "name") => d.name = None
          /\ ~Has(m, "description") => d.description = None
          /\ ~Has(m, "author") => d.author = None
          /\ ~Has(m, "branding") => d.branding = None
          /\ ~Has(m["runs"], "image") => d.runs.image = None
          /\ ~Has(m["runs"], "args") => d.runs.args = None
          /\ DOMAIN d.inputs = DOMAIN m["inputs"]
          /\ DOMAIN d.outputs = DOMAIN m["outputs"]
          /\ \A k \in DOMAIN d.outputs :
               ~Has(m["outputs"][k], "description") => d.outputs[k].description = None
          /\ \A k \in DOMAIN d.inputs :
               LET im == m["inputs"][k]
                   i == d.inputs[k]
               IN  /\ ~Has(im, "description") => i.description = None
                   /\ ~Has(im, "required") => i.required = None
                   /\ ~Has(im, "default") => i.default = None
                   /\ ~Has(im, "deprecationMessage") => i.deprecation_message = None
                   /\ RequiredOnlyEntry(im) =>
                        /\ i = OnlyRequired
                        /\ \A o \in Write(fs, d) :
                             o.ret.tag = "Ok" =>
                               RequiredOnlyEntry(o.fs[Unwrap(arg)].data.map["inputs"][k])
                        /\ ~pre[Unwrap(arg)].ro => \E o \in Write(fs, d) : o.ret.tag = "Ok"

\* C8 witness: load_action returned a descriptor for a document with an inputs
\* entry that holds required: true alone.
C8_Witness ==
    /\ LoadedFile /\ LoadOk
    /\ \E k \in DOMAIN Loaded.map["inputs"] :
         RequiredOnlyEntry(Loaded.map["inputs"][k])
    /\ ~pre[Unwrap(arg)].ro

\* C9: write is total on descriptors with a location.  Whatever the path and
\* the file system, write on a descriptor with a path returns the path or an
\* ActionsError; it never panics.
C9_WriteTotal ==
    HasTarget =>
      \/ ret = Ok(Some(Target))
      \/ ret.tag = "Err" /\ ret.kind \in {"ActionsError::IOError",
                                          "ActionsError::NotImplemented"}

MandatoryMissing(data) ==
    /\ data.wf
    /\ \/ {"inputs", "outputs", "runs"} \ DOMAIN data.map # {}
       \/ ~Has(data.map["runs"], "using")

\* C10: inputs, outputs, runs and runs.using are mandatory on load.  A
\* document without one of them fails to load with the codec's structure
\* error and no descriptor is returned; a document with empty inputs and
\* outputs mappings loads; every document a successful write emits holds
\* inputs, outputs, runs and runs.using.
C10_MandatoryKeys ==
    /\ LoadedFile =>
         /\ MandatoryMissing(Loaded) =>
              ret.tag = "Err" /\ ret.kind = "serde_yaml::Error" /\ out = None
         /\ Loaded = Doc(SerActionYML(Minimal)) =>
              LoadOk /\ Unwrap(out) = [Minimal EXCEPT !.path = arg]
    /\ WriteOk =>
         /\ {"inputs", "outputs", "runs"} \subseteq DOMAIN Emitted
         /\ Has(Emitted["runs"], "using")

\* C10 witness: load_action failed on a document that lacks only the inputs
\* key.
C10_Witness ==
    /\ LoadedFile
    /\ Loaded = Doc(Without(FullMap, "inputs"))
    /\ ret.tag = "Err"

\* C10 witness of the documents that lack outputs, runs and runs.using.
C10_WitnessOthers ==
    /\ LoadedFile
    /\ ret.tag = "Err"
    /\ Loaded \in {Doc(Without(FullMap, "outputs")), Doc(Without(FullMap, "runs")),
                   Doc(("runs" :> Without(FullMap["runs"], "using")) @@ FullMap)}

====
